---- MODULE Spec2Model ----
(***************************************************************************)
(* Shopify integration adapter: webhook intake (signature verification,   *)
(* duplicate suppression) and access-token acquisition / caching.          *)
(*                                                                         *)
(* Encoding of Python values:                                              *)
(*   - str / bytes are sequences of code points / byte values;             *)
(*   - an optional header (fastapi Header(None)) is a record               *)
(*     [present, value]; present = FALSE is Python None;                   *)
(*   - event-id headers are TLA+ strings, None is the value None below;    *)
(*   - datetime.now() is the variable now, in hours;                       *)
(*   - the outcome of a Python call that may raise is one of the strings   *)
(*     "True", "False", "TypeError"; an engine call that raises ends with  *)
(*     the exception as its result;                                        *)
(*   - the credential store is the function db from tenant id to its       *)
(*     Integration row, and lru is the cache functools.lru_cache keeps.    *)
(*                                                                         *)
(* Specifications: Spec (one webhook handler task), SpecBurst (three       *)
(* handler tasks of one event loop), SpecVerify (the verifier alone),      *)
(* SpecEngine (engines used by one caller), SpecRace (one engine used by   *)
(* two threads), SpecResolver (resolver calls while the store changes).    *)
(***************************************************************************)
EXTENDS Integers, Sequences, FiniteSets, TLC

VARIABLES
    SHOPIFY_WEBHOOK_SECRET, \* config.SHOPIFY_WEBHOOK_SECRET
    processed_event_ids,    \* module-level dict: event id -> first-seen time
    now,                    \* the wall clock read by datetime.now(), hours
    reqs,                   \* one record per webhook handler task
    firstSeen,              \* history: time of the last first sighting per id
    verifiedIds,            \* history: ids of deliveries that passed verification
    vcall,                  \* a direct call of verify_shopify_webhook
    engines,                \* ShopifyEngine instances
    calls,                  \* list_products / get_product calls in progress
    net,                    \* history: requests sent to the platform
    traffic,                \* the event ids and bodies the senders use
    firstCount,             \* history: calls per id that returned False
    db,                     \* the Integration rows of the credential store
    lru,                    \* the lru_cache of get_client_integration
    rcall                   \* the last direct call of a resolver function

vars == <<SHOPIFY_WEBHOOK_SECRET, processed_event_ids, now, reqs, firstSeen,
          verifiedIds, vcall, engines, calls, net, traffic, firstCount,
          db, lru, rcall>>

webhookVars == <<processed_event_ids, now, reqs, firstSeen, verifiedIds,
                 traffic, firstCount>>
engineVars == <<engines, calls, net>>
storeVars == <<db, lru, rcall>>

-----------------------------------------------------------------------------
(* Bounds of the model *)

MaxTime == 36           \* the clock stops advancing here (hours)
TickStep == 12          \* hours the clock advances in one step
DigestLen == 3          \* bytes of the modelled digest (sha256 has 32)
MaxCalls == 3           \* engine calls started per engine

-----------------------------------------------------------------------------
(* Python values *)

None == "None"
NoHeader == [present |-> FALSE, value |-> <<>>]
Str(s) == [present |-> TRUE, value |-> s]

\* Python truthiness of an optional string header
TruthyHeader(h) == h.present /\ h.value # <<>>
TruthyId(event_id) == event_id # None /\ event_id # ""

-----------------------------------------------------------------------------
(* Signature verifier: hmac.new(...).digest(), base64.b64encode, compare_digest *)

Secret1 == <<115, 51>>          \* "s3"
Secret2 == <<107, 49>>          \* "k1"
Secrets == {Secret1, Secret2}

BodyObj == <<123, 125>>         \* b'{}'
BodyArr == <<91, 93>>           \* b'[]'
BodyBad == <<123>>              \* b'{'   (not a JSON document)
Bodies == {BodyObj, BodyArr, BodyBad}

RECURSIVE Poly(_, _, _)
Poly(s, base, acc) ==
    IF s = <<>> THEN acc
    ELSE Poly(Tail(s), base, (acc * base + Head(s) + 1) % 251)

\* The keyed hash, a DigestLen-byte digest of (key, msg); collision-free on the
\* keys and messages of the model.
hmac_digest(key, msg) ==
    [i \in 1..DigestLen |->
        (Poly(key, 29 + 2 * i, i) * 7 + Poly(msg, 31 + 4 * i, 3 * i) * 13 + Len(msg)) % 256]

B64Char(i) ==
    IF i < 26 THEN 65 + i
    ELSE IF i < 52 THEN 97 + (i - 26)
    ELSE IF i < 62 THEN 48 + (i - 52)
    ELSE IF i = 62 THEN 43 ELSE 47

RECURSIVE b64encode(_)
b64encode(bs) ==
    LET n == Len(bs) IN
    IF n = 0 THEN <<>>
    ELSE IF n >= 3 THEN
        LET v == bs[1] * 65536 + bs[2] * 256 + bs[3] IN
        <<B64Char(v \div 262144), B64Char((v \div 4096) % 64),
          B64Char((v \div 64) % 64), B64Char(v % 64)>> \o b64encode(SubSeq(bs, 4, n))
    ELSE IF n = 2 THEN
        LET v == bs[1] * 65536 + bs[2] * 256 IN
        <<B64Char(v \div 262144), B64Char((v \div 4096) % 64),
          B64Char((v \div 64) % 64), 61>>
    ELSE
        LET v == bs[1] * 65536 IN
        <<B64Char(v \div 262144), B64Char((v \div 4096) % 64), 61, 61>>

IsAscii(s) == \A i \in 1..Len(s) : s[i] < 128

\* The mutant: a comparison that accepts any prefix of the computed signature.
compare_prefix(a, b) ==
    IF ~b.present THEN "TypeError"
    ELSE IF ~IsAscii(a) \/ ~IsAscii(b.value) THEN "TypeError"
    ELSE IF Len(b.value) <= Len(a) /\ SubSeq(a, 1, Len(b.value)) = b.value
         THEN "True" ELSE "False"

\* hmac.compare_digest(a, b) with a a str: TypeError when b is None or when
\* either str holds a non-ASCII character, else equality.
compare_digest(a, b) ==
    IF ~b.present THEN "TypeError"
    ELSE IF ~IsAscii(a) \/ ~IsAscii(b.value) THEN "TypeError"
    ELSE IF a = b.value THEN "True" ELSE "False"

computed_hmac(secret, data) == b64encode(hmac_digest(secret, data))

\* The mutant: the signature is checked against a canonical form of the body
verify_digest_canonical(secret, data, hmac_header) ==
    compare_digest(computed_hmac(secret, BodyObj), hmac_header)

verify_digest(secret, data, hmac_header) ==
    compare_digest(computed_hmac(secret, data), hmac_header)

verify_shopify_webhook(data, hmac_header) ==
    verify_digest(SHOPIFY_WEBHOOK_SECRET, data, hmac_header)

\* What a sender holding secret s puts in the signature header for body b
sign(s, b) == Str(b64encode(hmac_digest(s, b)))

NonAscii == Str(<<233>>)        \* "é": a header byte outside ASCII
Truncated(h) == Str(SubSeq(h.value, 1, Len(h.value) - 1))

\* The signature headers a direct call is tried with, each with where it came from
SigInputs ==
    {[kind |-> "absent", hdr |-> NoHeader, s |-> Secret1, b |-> BodyObj],
     [kind |-> "empty", hdr |-> Str(<<>>), s |-> Secret1, b |-> BodyObj],
     [kind |-> "non_ascii", hdr |-> NonAscii, s |-> Secret1, b |-> BodyObj]}
    \cup {[kind |-> "signed", hdr |-> sign(s, b), s |-> s, b |-> b] :
            s \in Secrets, b \in Bodies}
    \cup {[kind |-> "truncated", hdr |-> Truncated(sign(s, b)), s |-> s, b |-> b] :
            s \in Secrets, b \in Bodies}

NoVCall == [data |-> <<>>, sig |-> [kind |-> "absent", hdr |-> NoHeader,
                                    s |-> Secret1, b |-> BodyObj],
            result |-> "idle"]

\* A caller invokes verify_shopify_webhook(data, hmac_header)
VerifyCall ==
    /\ vcall.result = "pending"
    /\ vcall' = [vcall EXCEPT !.result = verify_shopify_webhook(vcall.data, vcall.sig.hdr)]
    /\ UNCHANGED <<SHOPIFY_WEBHOOK_SECRET, webhookVars, engineVars, storeVars>>

-----------------------------------------------------------------------------
(* Duplicate suppressor *)

WINDOW_HOURS == 24

EventIds == {"evt-1", "evt-2"}
EventIdHeaders == {None, ""} \cup EventIds

Recorded(ids, event_id) == event_id \in DOMAIN ids

Record(ids, event_id, t) ==
    [k \in DOMAIN ids \cup {event_id} |-> IF k = event_id THEN t ELSE ids[k]]

\* The mutant: an entry is dropped as soon as it is 24 hours old
ExpiredAtWindow(recorded_at, t) == (t - recorded_at) >= WINDOW_HOURS

\* line 19: (current_time - processed_event_ids[eid]) > timedelta(hours=24)
Expired(recorded_at, t) == (t - recorded_at) > WINDOW_HOURS

\* for eid in list(keys): if expired: del
Sweep(ids, t) ==
    [k \in {e \in DOMAIN ids : ~Expired(ids[e], t)} |-> ids[k]]

\* The mutant: the membership test is inverted
is_duplicate_event_inverted(ids, event_id) == ~Recorded(ids, event_id)

\* is_duplicate_event: the value returned ...
is_duplicate_event(ids, event_id) == Recorded(ids, event_id)

\* The mutant: the call records the id with the current time on both paths
is_duplicate_event_refreshing(ids, event_id, t) == Sweep(Record(ids, event_id, t), t)

\* The mutant: the check is made but the id is not recorded by the call
is_duplicate_event_unrecorded(ids, event_id, t) == ids

\* ... and the dict it leaves behind
is_duplicate_event_ids(ids, event_id, t) ==
    IF Recorded(ids, event_id) THEN ids
    ELSE Sweep(Record(ids, event_id, t), t)

-----------------------------------------------------------------------------
(* Webhook intake: product_created, product_updated, product_deleted *)

Slots == {"task-1"}
BurstSlots == {"task-1", "task-2", "task-3"}

RECURSIVE IsDigits(_)
IsDigits(s) == s = <<>> \/ (Head(s) \in 48..57 /\ IsDigits(Tail(s)))

\* json.loads(body.decode("utf-8")) returns (TRUE) or raises (FALSE): the bodies
\* of the model are ASCII; the documents told apart are {}, [] and integers.
json_loads_ok(body) ==
    /\ IsAscii(body)
    /\ \/ body = <<123, 125>>
       \/ body = <<91, 93>>
       \/ (body # <<>> /\ IsDigits(body))

\* The bodies and signature headers webhook requests arrive with
WebhookBodies == {BodyObj, BodyBad}
OtherBody(b) == IF b = BodyObj THEN BodyBad ELSE BodyObj
HeaderChoices(secret, body) ==
    {NoHeader, sign(secret, body), sign(secret, OtherBody(body)), NonAscii}

CorrectlySigned(q) == q.hmac = sign(SHOPIFY_WEBHOOK_SECRET, q.body)

IdleReq ==
    [pc |-> "idle", endpoint |-> "", event_id |-> None, hmac |-> NoHeader,
     body |-> <<>>, dup |-> "notcalled", verify |-> "notcalled",
     decoded |-> FALSE, loads |-> "notcalled", outcome |-> "none", status |-> 0,
     sighting |-> "none", recorded |-> FALSE, wrote |-> FALSE, priorVerified |-> FALSE]

\* History: where a delivery falls relative to the last first sighting of its
\* event id: "first" (never seen), "within" the retention window, or "after" it
Sighting(seen, t) ==
    IF seen < 0 THEN "first"
    ELSE IF t - seen <= WINDOW_HOURS THEN "within" ELSE "after"

\* The mutant: the duplicate check is made whatever the event-id header holds
AlwaysCheckDuplicate(event_id) == TRUE

\* `if x_shopify_event_id and is_duplicate_event(...)`: the left operand
ShouldCheckDuplicate(event_id) == TruthyId(event_id)

\* Lines 13-19 of a handler: from the request's arrival to `await request.body()`
Handle(r, ep) ==
    /\ reqs[r].pc \in {"idle", "done"}
    /\ \E event_id \in traffic.event_ids, body \in traffic.bodies :
       \E hmac \in HeaderChoices(SHOPIFY_WEBHOOK_SECRET, body) :
        LET check == ShouldCheckDuplicate(event_id)
            dup == check /\ is_duplicate_event(processed_event_ids, event_id)
            ids == IF check
                   THEN is_duplicate_event_ids(processed_event_ids, event_id, now)
                   ELSE processed_event_ids
            q == [IdleReq EXCEPT
                    !.endpoint = ep, !.event_id = event_id, !.hmac = hmac,
                    !.body = body,
                    !.dup = IF ~check THEN "notcalled"
                            ELSE IF dup THEN "True" ELSE "False",
                    !.sighting = IF check THEN Sighting(firstSeen[event_id], now)
                                 ELSE "none",
                    !.recorded = Recorded(processed_event_ids, event_id),
                    !.wrote = (ids # processed_event_ids),
                    !.priorVerified = (event_id \in verifiedIds)]
        IN  /\ processed_event_ids' = ids
            /\ firstSeen' = IF check /\ ~dup
                            THEN [firstSeen EXCEPT ![event_id] = now]
                            ELSE firstSeen
            /\ firstCount' = IF check /\ ~dup
                             THEN [firstCount EXCEPT ![event_id] = @ + 1]
                             ELSE firstCount
            /\ reqs' = [reqs EXCEPT ![r] =
                    IF dup
                    THEN [q EXCEPT !.pc = "done", !.outcome = "DuplicateSkipped",
                                   !.status = 200]
                    ELSE [q EXCEPT !.pc = "await_body"]]
    /\ UNCHANGED <<SHOPIFY_WEBHOOK_SECRET, now, verifiedIds, vcall, traffic,
                   engineVars, storeVars>>

\* Lines 20-38 of a handler: the body has been read
Resume(r, ep) ==
    /\ reqs[r].pc = "await_body"
    /\ reqs[r].endpoint = ep
    /\ LET q == reqs[r]
           v == IF TruthyHeader(q.hmac)
                THEN verify_shopify_webhook(q.body, q.hmac)
                ELSE "notcalled"
           ok == v = "True" /\ json_loads_ok(q.body)
       IN  /\ reqs' = [reqs EXCEPT ![r] =
                IF v \in {"notcalled", "False"}
                THEN [q EXCEPT !.pc = "done", !.verify = v,
                               !.outcome = "Unauthorized", !.status = 401]
                ELSE IF ok
                THEN [q EXCEPT !.pc = "done", !.verify = v, !.decoded = TRUE,
                               !.loads = "returned",
                               !.outcome = "Accepted", !.status = 200]
                ELSE [q EXCEPT !.pc = "done", !.verify = v,
                               !.loads = IF v = "True" THEN "JSONDecodeError"
                                         ELSE "notcalled",
                               !.outcome = "Fault", !.status = 500]]
           /\ verifiedIds' = IF v = "True" /\ TruthyId(q.event_id)
                             THEN verifiedIds \cup {q.event_id} ELSE verifiedIds
    /\ UNCHANGED <<SHOPIFY_WEBHOOK_SECRET, processed_event_ids, now, firstSeen,
                   vcall, traffic, firstCount, engineVars, storeVars>>

product_created(r) == Handle(r, "products/create") \/ Resume(r, "products/create")
product_updated(r) == Handle(r, "products/update") \/ Resume(r, "products/update")
product_deleted(r) == Handle(r, "products/delete") \/ Resume(r, "products/delete")

\* Time passes
Tick ==
    /\ now + TickStep <= MaxTime
    /\ now' = now + TickStep
    /\ UNCHANGED <<SHOPIFY_WEBHOOK_SECRET, processed_event_ids, reqs, firstSeen,
                   verifiedIds, vcall, traffic, firstCount, engineVars, storeVars>>

-----------------------------------------------------------------------------
(* Credential resolver (shopify/config.py). An absent str is None; an      *)
(* absent expires_in is NoneInt.                                            *)

NoneInt == -1

ClientIds == {"12345", "99999"}

\* An Integration row (provider "shopify"), its encrypted columns as
\* decrypt_value returns them
IntegrationRow(client_id, secret) ==
    [store_url |-> IF client_id = "12345" THEN "showcasevault.myshopify.com"
                   ELSE "second.myshopify.com",
     integration_key |-> "key-1", integration_secret |-> secret,
     webhook_secret |-> "whsec-1"]

\* The client secrets a tenant's row holds over time (rotation)
IntegrationSecrets == {"shpss-1", "shpss-2"}

\* The Integration rows of the credential store when the process starts
Integrations == [c \in {"12345"} |-> IntegrationRow(c, "shpss-1")]

NoRow == [store_url |-> None, integration_key |-> None,
          integration_secret |-> None, webhook_secret |-> None]

\* get_client_integration, lines 15-29: the query's .first() row, or None
db_first(store, client_id) ==
    IF client_id \in DOMAIN store
    THEN [found |-> TRUE, row |-> store[client_id]]
    ELSE [found |-> FALSE, row |-> NoRow]

\* @lru_cache(maxsize=128): the value returned for client_id ...
get_client_integration(client_id) ==
    IF client_id \in DOMAIN lru THEN lru[client_id] ELSE db_first(db, client_id)

\* ... and the cache the call leaves behind (two tenants never fill it)
lru_cache(cache, store, client_id) ==
    IF client_id \in DOMAIN cache THEN cache
    ELSE [k \in DOMAIN cache \cup {client_id} |->
            IF k = client_id THEN db_first(store, client_id) ELSE cache[k]]

\* get_store_url, lines 35-39: a str for a known tenant, the dict
\* {"store_url": None} otherwise
store_url_of(client) ==
    IF ~client.found THEN [type |-> "dict", value |-> None]
    ELSE [type |-> "str", value |-> client.row.store_url]

get_store_url(client_id) == store_url_of(get_client_integration(client_id))

\* get_client_credentials, lines 44-52
credentials_of(client) ==
    IF ~client.found THEN [client_id |-> None, client_secret |-> None]
    ELSE [client_id |-> client.row.integration_key,
          client_secret |-> client.row.integration_secret]

get_client_credentials(client_id) == credentials_of(get_client_integration(client_id))

\* get_webhook_secret, lines 56-60
webhook_secret_of(client) ==
    IF ~client.found THEN [type |-> "dict", value |-> None]
    ELSE [type |-> "str", value |-> client.row.webhook_secret]

get_webhook_secret(client_id) == webhook_secret_of(get_client_integration(client_id))

NoRCall == [fn |-> "none", client_id |-> None,
            result |-> [type |-> "none", value |-> None],
            stored |-> [found |-> FALSE, row |-> NoRow]]

\* A direct call of a resolver function; stored is what the query would read
\* from the store at the time of the call
ResolverCall(fn, client_id, result) ==
    /\ rcall' = [fn |-> fn, client_id |-> client_id, result |-> result,
                 stored |-> db_first(db, client_id)]
    /\ lru' = lru_cache(lru, db, client_id)
    /\ UNCHANGED <<SHOPIFY_WEBHOOK_SECRET, webhookVars, vcall, engineVars, db>>

StoreUrlCall(client_id) ==
    ResolverCall("get_store_url", client_id, get_store_url(client_id))

CredentialsCall(client_id) ==
    ResolverCall("get_client_credentials", client_id, get_client_credentials(client_id))

WebhookSecretCall(client_id) ==
    ResolverCall("get_webhook_secret", client_id, get_webhook_secret(client_id))

\* The credential store changes under the process: a tenant is provisioned,
\* its secret is rotated, its row is removed
Provision(client_id) ==
    /\ client_id \notin DOMAIN db
    /\ \E secret \in IntegrationSecrets :
        db' = [k \in DOMAIN db \cup {client_id} |->
                IF k = client_id THEN IntegrationRow(client_id, secret) ELSE db[k]]
    /\ UNCHANGED <<SHOPIFY_WEBHOOK_SECRET, webhookVars, vcall, engineVars, lru, rcall>>

Rotate(client_id) ==
    /\ client_id \in DOMAIN db
    /\ \E secret \in IntegrationSecrets \ {db[client_id].integration_secret} :
        db' = [db EXCEPT ![client_id].integration_secret = secret]
    /\ UNCHANGED <<SHOPIFY_WEBHOOK_SECRET, webhookVars, vcall, engineVars, lru, rcall>>

Remove(client_id) ==
    /\ client_id \in DOMAIN db
    /\ db' = [k \in DOMAIN db \ {client_id} |-> db[k]]
    /\ UNCHANGED <<SHOPIFY_WEBHOOK_SECRET, webhookVars, vcall, engineVars, lru, rcall>>

StoreIdle ==
    /\ db = Integrations
    /\ lru = <<>>
    /\ rcall = NoRCall

-----------------------------------------------------------------------------
(* Token acquisition and the engine's token cache.                          *)

\* `not store_url`: None and "" are falsy, a non-empty dict is truthy
FalsyUrl(store_url) == store_url.type = "str" /\ store_url.value \in {None, ""}
FalsyStr(x) == x \in {None, ""}

\* services get_access_token, lines 14-22: the exception raised, or the token
\* request to send
token_request(client_id) ==
    LET store_url == get_store_url(client_id)
        credentials == get_client_credentials(client_id)
    IN  IF FalsyUrl(store_url)
        THEN [raises |-> TRUE, error |-> "ValueError: Unknown Shopify client_id",
              url |-> store_url]
        ELSE IF FalsyStr(credentials.client_id) \/ FalsyStr(credentials.client_secret)
        THEN [raises |-> TRUE, error |-> "ValueError: Missing Shopify credentials",
              url |-> store_url]
        ELSE [raises |-> FALSE, error |-> "", url |-> store_url]

\* utils/shopify_utils.py: the module-level tables of tenants
_store_url == [c \in {"12345"} |-> "showcasevault.myshopify.com"]
_client_screts == [c \in {"12345"} |-> [client_key |-> "key-1", client_secret |-> "shpss-1"]]

\* utils get_access_token, lines 19-29: _client_screts.get(client_id) is None
\* for an unknown tenant and .get on it raises while json_body is built
token_request_utils(client_id) ==
    LET store_url == IF client_id \in DOMAIN _store_url
                     THEN [type |-> "str", value |-> _store_url[client_id]]
                     ELSE [type |-> "str", value |-> None]
    IN  IF client_id \notin DOMAIN _client_screts
        THEN [raises |-> TRUE, error |-> "AttributeError", url |-> store_url]
        ELSE [raises |-> FALSE, error |-> "", url |-> store_url]

\* What the token endpoint may answer
Tokens == {"shpat-A", "shpat-B"}
TokenResponses ==
    {[status_code |-> 200, access_token |-> t, expires_in |-> 86399] : t \in Tokens}
    \cup {[status_code |-> 401, access_token |-> None, expires_in |-> NoneInt]}

\* The mutant: a failed acquisition yields an empty token instead of None
access_credentials_empty(response) ==
    IF response.status_code = 200
    THEN [access_token |-> response.access_token, expires_in |-> response.expires_in]
    ELSE [access_token |-> "", expires_in |-> 0]

\* get_access_token, lines 31-43
access_credentials(response) ==
    IF response.status_code = 200
    THEN [access_token |-> response.access_token, expires_in |-> response.expires_in]
    ELSE [access_token |-> None, expires_in |-> NoneInt]

EngineIds == {"engine-1", "engine-2"}
Callers == {"caller-1"}
RacingCallers == {"caller-1", "caller-2"}

\* module: where the engine class takes get_access_token and the catalog
\* functions from, "services" (connection_adapter/adapter.py) or "utils"
\* (engine/shopify.py)
NoEngine == [created |-> FALSE, module |-> "services", _client_id |-> None,
             _access_token |-> None, _access_token_expires_in |-> NoneInt]

\* posts: token requests this call has sent; after: how the engine's previous
\* acquisition ended when the call started
IdleCall == [pc |-> "idle", engine |-> "engine-1", op |-> "",
             pending |-> [access_token |-> None, expires_in |-> NoneInt],
             result |-> "none", posts |-> 0, after |-> "none"]

\* ShopifyEngine(client_id), as get_engine or main.py constructs it
Construct(i, client_id) ==
    /\ ~engines[i].created
    /\ \E module \in {"services", "utils"} :
        engines' = [engines EXCEPT ![i] =
            [created |-> TRUE, module |-> module, _client_id |-> client_id,
             _access_token |-> None, _access_token_expires_in |-> NoneInt]]
    /\ UNCHANGED <<SHOPIFY_WEBHOOK_SECRET, webhookVars, vcall, calls, net, storeVars>>

\* The mutant: the cache is never consulted
AlwaysAcquire(e) == TRUE

\* _get_access_token, line 11
NeedsToken(e) == e._access_token = None \/ e._access_token_expires_in = NoneInt

\* list_products / get_product up to the first network request: line 11 and,
\* when no token is cached, get_access_token up to requests.post
Begin(c, i, op) ==
    /\ calls[c].pc \in {"idle", "done"}
    /\ engines[i].created
    /\ net.started[i] < MaxCalls
    /\ LET e == engines[i]
           call == [IdleCall EXCEPT !.engine = i, !.op = op, !.after = net.last[i]]
           req == IF e.module = "services" THEN token_request(e._client_id)
                  ELSE token_request_utils(e._client_id)
       IN  /\ IF ~NeedsToken(e)
              THEN /\ calls' = [calls EXCEPT ![c] = [call EXCEPT !.pc = "catalog"]]
                   /\ net' = [net EXCEPT !.started[i] = @ + 1]
              ELSE IF req.raises
              THEN /\ calls' = [calls EXCEPT ![c] =
                           [call EXCEPT !.pc = "done", !.result = req.error]]
                   /\ net' = [net EXCEPT !.started[i] = @ + 1]
              ELSE /\ calls' = [calls EXCEPT ![c] =
                           [call EXCEPT !.pc = "await_token", !.posts = 1]]
                   /\ net' = [net EXCEPT !.started[i] = @ + 1, !.posts[i] = @ + 1]
           /\ lru' = IF NeedsToken(e) /\ e.module = "services"
                     THEN lru_cache(lru, db, e._client_id) ELSE lru
    /\ UNCHANGED <<SHOPIFY_WEBHOOK_SECRET, webhookVars, vcall, engines, db, rcall>>

\* requests.post returns; get_access_token lines 31-43; _get_access_token line 13
TokenResponse(c) ==
    /\ calls[c].pc = "await_token"
    /\ \E response \in TokenResponses :
        LET creds == access_credentials(response)
            i == calls[c].engine
            ok == response.status_code = 200
        IN  /\ engines' = [engines EXCEPT ![i]._access_token = creds.access_token]
            /\ calls' = [calls EXCEPT ![c].pc = "set_expiry", ![c].pending = creds]
            /\ net' = [net EXCEPT
                        !.first[i] = IF @ # "none" THEN @
                                     ELSE IF ok THEN "ok" ELSE "failed",
                        !.firstToken[i] = IF net.first[i] # "none" THEN @
                                          ELSE creds.access_token,
                        !.last[i] = IF ok THEN "ok" ELSE "failed",
                        !.grantedAt[i] = IF ok THEN now ELSE -1,
                        !.grantedFor[i] = creds.expires_in,
                        !.tokenFrom[i] = c]
    /\ UNCHANGED <<SHOPIFY_WEBHOOK_SECRET, webhookVars, vcall, storeVars>>

\* _get_access_token line 14
SetExpiry(c) ==
    /\ calls[c].pc = "set_expiry"
    /\ engines' = [engines EXCEPT
            ![calls[c].engine]._access_token_expires_in = calls[c].pending.expires_in]
    /\ calls' = [calls EXCEPT ![c].pc = "catalog"]
    /\ net' = [net EXCEPT !.expiryFrom[calls[c].engine] = c]
    /\ UNCHANGED <<SHOPIFY_WEBHOOK_SECRET, webhookVars, vcall, storeVars>>

\* list_client_products / get_client_product (services) or get_product (utils)
\* with self._access_token: the GET carries the token the engine holds; the
\* result is the JSON or None. The services functions look the store url up
\* first and raise when it is falsy.
Catalog(c) ==
    /\ calls[c].pc = "catalog"
    /\ LET i == calls[c].engine
           e == engines[i]
           token == e._access_token
       IN  IF e.module = "services" /\ FalsyUrl(get_store_url(e._client_id))
           THEN /\ calls' = [calls EXCEPT ![c].pc = "done",
                        ![c].result = "ValueError: Unknown Shopify client_id"]
                /\ lru' = lru_cache(lru, db, e._client_id)
                /\ UNCHANGED net
           ELSE /\ net' = [net EXCEPT !.catalogs[i] = @ + 1,
                                      !.catalogTokens[i] = @ \cup {token}]
                /\ \E status_code \in {200, 401} :
                     calls' = [calls EXCEPT ![c].pc = "done",
                                 ![c].result = IF status_code = 200 THEN "json" ELSE "None"]
                /\ lru' = IF e.module = "services"
                          THEN lru_cache(lru, db, e._client_id) ELSE lru
    /\ UNCHANGED <<SHOPIFY_WEBHOOK_SECRET, webhookVars, vcall, engines, db, rcall>>

list_products(c, i) == Begin(c, i, "list_products")
get_product(c, i) == Begin(c, i, "get_product")

\* grantedAt / grantedFor: when the token an engine holds was issued and the
\* expires_in it was issued with; tokenFrom / expiryFrom: the call whose token
\* response wrote the engine's token / expiry
NoRequests ==
    [started |-> [i \in EngineIds |-> 0],
     posts |-> [i \in EngineIds |-> 0],
     catalogs |-> [i \in EngineIds |-> 0],
     catalogTokens |-> [i \in EngineIds |-> {}],
     first |-> [i \in EngineIds |-> "none"],
     firstToken |-> [i \in EngineIds |-> None],
     last |-> [i \in EngineIds |-> "none"],
     grantedAt |-> [i \in EngineIds |-> -1],
     grantedFor |-> [i \in EngineIds |-> NoneInt],
     tokenFrom |-> [i \in EngineIds |-> "none"],
     expiryFrom |-> [i \in EngineIds |-> "none"]]

EngineIdle ==
    /\ engines = [i \in EngineIds |-> NoEngine]
    /\ calls = [c \in Callers |-> IdleCall]
    /\ net = NoRequests

\* One engine shared by two callers (threads)
EngineShared ==
    /\ engines = [i \in {"engine-1"} |-> NoEngine]
    /\ calls = [c \in RacingCallers |-> IdleCall]
    /\ net = NoRequests

-----------------------------------------------------------------------------

WebhookIdle ==
    /\ processed_event_ids = <<>>
    /\ now = 0
    /\ firstSeen = [e \in EventIdHeaders |-> -1]
    /\ firstCount = [e \in EventIdHeaders |-> 0]
    /\ verifiedIds = {}

\* One handler task at a time, fed any event-id header and body
OneTask ==
    /\ reqs = [r \in Slots |-> IdleReq]
    /\ traffic = [event_ids |-> EventIdHeaders, bodies |-> WebhookBodies]

\* Several handler tasks in flight at once, fed deliveries of one event
Burst ==
    /\ reqs = [r \in BurstSlots |-> IdleReq]
    /\ traffic = [event_ids |-> {"evt-1"}, bodies |-> {BodyObj}]

\* The webhook application after import: an empty dict, no request yet
Init ==
    /\ SHOPIFY_WEBHOOK_SECRET = Secret1
    /\ WebhookIdle
    /\ OneTask
    /\ vcall = NoVCall
    /\ EngineIdle
    /\ StoreIdle

Next ==
    \/ \E r \in DOMAIN reqs : product_created(r)
    \/ \E r \in DOMAIN reqs : product_updated(r)
    \/ \E r \in DOMAIN reqs : product_deleted(r)
    \/ Tick

Spec == Init /\ [][Next]_vars

\* The webhook application receiving a burst of deliveries of one event in
\* concurrent handler tasks of the event loop; the clock does not advance
\* during the burst
InitBurst ==
    /\ SHOPIFY_WEBHOOK_SECRET = Secret1
    /\ WebhookIdle
    /\ Burst
    /\ vcall = NoVCall
    /\ EngineIdle
    /\ StoreIdle

NextBurst ==
    \/ \E r \in DOMAIN reqs : product_created(r)
    \/ \E r \in DOMAIN reqs : product_updated(r)
    \/ \E r \in DOMAIN reqs : product_deleted(r)

SpecBurst == InitBurst /\ [][NextBurst]_vars

\* A process that uses engines: nothing constructed yet
InitEngine ==
    /\ SHOPIFY_WEBHOOK_SECRET = Secret1
    /\ WebhookIdle
    /\ OneTask
    /\ vcall = NoVCall
    /\ EngineIdle
    /\ StoreIdle

NextEngine ==
    \/ \E i \in DOMAIN engines, client_id \in ClientIds : Construct(i, client_id)
    \/ \E c \in DOMAIN calls, i \in DOMAIN engines : list_products(c, i)
    \/ \E c \in DOMAIN calls, i \in DOMAIN engines : get_product(c, i)
    \/ \E c \in DOMAIN calls : TokenResponse(c)
    \/ \E c \in DOMAIN calls : SetExpiry(c)
    \/ \E c \in DOMAIN calls : Catalog(c)
    \/ Tick

SpecEngine == InitEngine /\ [][NextEngine]_vars

\* Two callers (threads) using one engine at the same time
InitRace ==
    /\ SHOPIFY_WEBHOOK_SECRET = Secret1
    /\ WebhookIdle
    /\ OneTask
    /\ vcall = NoVCall
    /\ EngineShared
    /\ StoreIdle

SpecRace == InitRace /\ [][NextEngine]_vars

\* A process that resolves credentials while the credential store changes
InitResolver ==
    /\ SHOPIFY_WEBHOOK_SECRET = Secret1
    /\ WebhookIdle
    /\ OneTask
    /\ vcall = NoVCall
    /\ EngineIdle
    /\ StoreIdle

NextResolver ==
    \/ \E client_id \in ClientIds : StoreUrlCall(client_id)
    \/ \E client_id \in ClientIds : CredentialsCall(client_id)
    \/ \E client_id \in ClientIds : WebhookSecretCall(client_id)
    \/ \E client_id \in ClientIds : Provision(client_id)
    \/ \E client_id \in ClientIds : Rotate(client_id)
    \/ \E client_id \in ClientIds : Remove(client_id)

SpecResolver == InitResolver /\ [][NextResolver]_vars

\* Direct calls of the verifier, over every configured secret and input
InitVerify ==
    /\ SHOPIFY_WEBHOOK_SECRET \in Secrets
    /\ WebhookIdle
    /\ OneTask
    /\ \E data \in Bodies, sig \in SigInputs :
        vcall = [data |-> data, sig |-> sig, result |-> "pending"]
    /\ EngineIdle
    /\ StoreIdle

NextVerify == VerifyCall

SpecVerify == InitVerify /\ [][NextVerify]_vars

-----------------------------------------------------------------------------
(* Properties *)

Done(q) == q.pc = "done"
DupCalled(q) == q.dup # "notcalled"

\* C1: webhook processing is idempotent per event id: a delivery of e that
\* arrives within 24 hours of the delivery that recorded e ends in
\* DuplicateSkipped (so at most one delivery in the window is Accepted), and a
\* correctly signed first delivery of e is Accepted.
C1_IdempotentPerEventId ==
    \A r \in DOMAIN reqs :
        LET q == reqs[r] IN
        (Done(q) /\ TruthyId(q.event_id)) =>
            /\ (q.sighting = "within" => q.outcome = "DuplicateSkipped")
            /\ (q.sighting = "first" /\ CorrectlySigned(q) => q.outcome = "Accepted")

\* C2: a request that ends in Unauthorized has written no dedup record.
C2_UnauthorizedWritesNoRecord ==
    \A r \in DOMAIN reqs : reqs[r].outcome = "Unauthorized" => ~reqs[r].wrote

\* C3: a correctly signed delivery of e is skipped as a duplicate only if an
\* earlier delivery of e passed signature verification, and no request whose
\* verification did not succeed has marked its event id as seen.
C3_UnverifiedCannotSuppress ==
    \A r \in DOMAIN reqs :
        LET q == reqs[r] IN
        Done(q) =>
            /\ (q.outcome = "DuplicateSkipped" /\ CorrectlySigned(q) => q.priorVerified)
            /\ (q.wrote => q.verify = "True")

\* A step in which slot r runs is_duplicate_event for a request that arrives
DupCheckStep(r) ==
    /\ reqs[r].pc \in {"idle", "done"}
    /\ reqs'[r] # reqs[r]
    /\ DupCalled(reqs'[r])

\* C4: the first is_duplicate_event(e) returns False and records e with the
\* current time; every later call no more than 24 hours after it returns True,
\* whatever calls for other ids (and their sweeps) happened in between.
C4_FirstFalseThenTrueWithinWindow ==
    [][\A r \in DOMAIN reqs :
        DupCheckStep(r) =>
            LET e == reqs'[r].event_id
                seen == firstSeen[e]
            IN  /\ seen < 0 =>
                    /\ reqs'[r].dup = "False"
                    /\ e \in DOMAIN processed_event_ids'
                    /\ processed_event_ids'[e] = now
                /\ (seen >= 0 /\ now - seen <= WINDOW_HOURS) => reqs'[r].dup = "True"
      ]_vars

\* C4 witness: e is reported a duplicate exactly 24 hours after its first
\* sighting, another id having been recorded (and its sweep run) in between.
C4_Witness ==
    \E r \in DOMAIN reqs :
        LET q == reqs[r] IN
        /\ Done(q) /\ q.dup = "True" /\ q.sighting = "within"
        /\ now - firstSeen[q.event_id] = WINDOW_HOURS
        /\ \E e2 \in DOMAIN processed_event_ids :
            e2 # q.event_id /\ processed_event_ids[e2] > firstSeen[q.event_id]

\* C5: a call is_duplicate_event(e) made more than 24 hours after e was
\* recorded returns False and records e again.
C5_ExpiredIdIsNewAgain ==
    \A r \in DOMAIN reqs :
        LET q == reqs[r] IN
        (DupCalled(q) /\ q.sighting = "after") => (q.dup = "False" /\ q.wrote)

\* C6: a request without an event id (no header, or an empty one) is never
\* reported a duplicate, writes no record, goes on to the signature check, and
\* the dict never holds an entry for the absent id.
C6_AbsentIdNeverRecorded ==
    /\ None \notin DOMAIN processed_event_ids
    /\ "" \notin DOMAIN processed_event_ids
    /\ \A r \in DOMAIN reqs :
        LET q == reqs[r] IN
        (q.pc # "idle" /\ ~TruthyId(q.event_id)) =>
            /\ q.dup # "True"
            /\ ~q.wrote
            /\ \/ q.pc = "await_body"
               \/ q.outcome \in {"Unauthorized", "Accepted", "Fault"}

\* C6 witness: an id-less, correctly signed delivery was Accepted while the dict
\* holds records of other deliveries.
C6_Witness ==
    \E r \in DOMAIN reqs :
        LET q == reqs[r] IN
        /\ Done(q) /\ ~TruthyId(q.event_id) /\ q.outcome = "Accepted"
        /\ DOMAIN processed_event_ids = EventIds

\* C7: verify_shopify_webhook returns True exactly when the provided signature
\* is the base64 of the keyed hash of the body under the configured secret,
\* that is exactly when it was made by signing this body with this secret.
C7_VerifyIffSignatureMatches ==
    vcall.result \notin {"idle", "pending"} =>
        /\ vcall.result = "True" <=>
                vcall.sig.hdr = Str(b64encode(hmac_digest(SHOPIFY_WEBHOOK_SECRET, vcall.data)))
        /\ vcall.result = "True" <=>
                /\ vcall.sig.kind = "signed"
                /\ vcall.sig.s = SHOPIFY_WEBHOOK_SECRET
                /\ vcall.sig.b = vcall.data

\* C7 witness: the signature of the body under the configured secret verified.
C7_Witness ==
    /\ vcall.result = "True"
    /\ vcall.sig.kind = "signed"
    /\ vcall.sig.b = vcall.data

\* C8: verify_shopify_webhook never raises, whatever signature it is given.
C8_VerifyNeverRaises == vcall.result # "TypeError"

\* C9: a handler answers 200 exactly on Accepted or DuplicateSkipped and 401
\* exactly on Unauthorized, and a request whose event id is not recorded and
\* whose signature is absent or does not verify gets 401.
C9_StatusMatchesOutcome ==
    \A r \in DOMAIN reqs :
        LET q == reqs[r] IN
        Done(q) =>
            /\ q.status = 200 <=> q.outcome \in {"Accepted", "DuplicateSkipped"}
            /\ q.status = 401 <=> q.outcome = "Unauthorized"
            /\ (~q.recorded /\ ~CorrectlySigned(q)) => q.status = 401

\* C10: once the first token acquisition of an engine succeeded, the engine has
\* sent exactly one token request, and every catalog request it sends carries
\* the token of that first response.
C10_TokenCached ==
    \A i \in EngineIds :
        net.first[i] = "ok" =>
            /\ net.posts[i] = 1
            /\ net.catalogTokens[i] \subseteq {net.firstToken[i]}
            /\ engines[i]._access_token = net.firstToken[i]

\* C10 witness: after a successful first acquisition the engine served a
\* second call, list_products or get_product, from the cache.
C10_Witness ==
    \E i \in EngineIds :
        /\ net.first[i] = "ok"
        /\ net.started[i] >= 2
        /\ net.catalogs[i] >= 2

\* A step in which call c sends its catalog request
CatalogStep(c) == calls[c].pc = "catalog" /\ calls'[c].pc = "done"

\* C11: a cached access token is never used past its validity: no catalog
\* request carries a token later than the time the token was issued plus its
\* expires_in seconds (the clock is in hours).
C11_TokenNotUsedPastExpiry ==
    [][\A c \in DOMAIN calls :
        LET i == calls[c].engine IN
        (CatalogStep(c) /\ net'.catalogs[i] > net.catalogs[i]
                        /\ engines[i]._access_token # None) =>
            now * 3600 <= net.grantedAt[i] * 3600 + net.grantedFor[i]
      ]_vars

\* C12: when the token endpoint answers with a non-success status no token is
\* cached (token and expiry stay None), the acquisition has sent exactly one
\* token request (no retry), and the next acquisition on the same engine sends
\* a fresh token request.
C12_FailedAcquisitionNotCached ==
    /\ \A i \in DOMAIN engines :
        /\ net.last[i] = "failed" =>
            /\ engines[i]._access_token = None
            /\ engines[i]._access_token_expires_in = NoneInt
        /\ net.posts[i] <= net.started[i]
    /\ \A c \in DOMAIN calls :
        /\ calls[c].posts <= 1
        /\ (calls[c].pc \in {"await_token", "set_expiry"}) => calls[c].posts = 1
        /\ (calls[c].pc # "idle" /\ calls[c].after = "failed") => calls[c].posts = 1

\* C12 witness: a call that followed a failed acquisition sent the engine's
\* second token request, which failed again, and nothing is cached.
C12_Witness ==
    \E c \in DOMAIN calls :
        LET i == calls[c].engine IN
        /\ calls[c].pc = "done" /\ calls[c].after = "failed" /\ calls[c].posts = 1
        /\ net.posts[i] = 2 /\ net.last[i] = "failed"
        /\ engines[i]._access_token = None

\* The tenant of engine i is one the credential resolver does not know
UnknownTenant(i) ==
    /\ engines[i].created
    /\ IF engines[i].module = "services"
       THEN engines[i]._client_id \notin DOMAIN db
       ELSE engines[i]._client_id \notin DOMAIN _client_screts

\* C13: token acquisition for a tenant the credential resolver does not know
\* fails with the missing-credentials outcome, sends no network request
\* (neither a token request nor a catalog request) and caches nothing.
C13_UnknownTenantNoRequest ==
    /\ \A i \in DOMAIN engines :
        UnknownTenant(i) =>
            /\ net.posts[i] = 0 /\ net.catalogs[i] = 0
            /\ engines[i]._access_token = None
            /\ engines[i]._access_token_expires_in = NoneInt
    /\ \A c \in DOMAIN calls :
        (calls[c].pc # "idle" /\ UnknownTenant(calls[c].engine)) =>
            /\ calls[c].pc = "done"
            /\ calls[c].posts = 0
            /\ calls[c].result = "ValueError: Missing Shopify credentials"

\* C14: when deliveries of one event id reach several handler tasks at once,
\* exactly one is_duplicate_event call returns False and every other returns
\* True, in every interleaving of the handlers, and every call leaves the id
\* recorded (check and insert are one atomic step for the other handlers).
C14_OneFirstSighting ==
    \A e \in EventIds :
        /\ firstCount[e] <= 1
        /\ Cardinality({r \in DOMAIN reqs :
                reqs[r].event_id = e /\ reqs[r].dup = "False"}) <= 1
        /\ \A r \in DOMAIN reqs :
            (reqs[r].event_id = e /\ DupCalled(reqs[r])) =>
                /\ firstCount[e] = 1
                /\ Recorded(processed_event_ids, e)
                /\ reqs[r].dup = "True" <=> reqs[r].recorded

\* C14 witness: three deliveries of evt-1 are in the handlers at once; the one
\* that came first is still waiting for its body and the other two were
\* skipped as duplicates.
C14_Witness ==
    \E r1 \in DOMAIN reqs :
        /\ reqs[r1].pc = "await_body" /\ reqs[r1].dup = "False"
        /\ reqs[r1].event_id = "evt-1"
        /\ Cardinality(DOMAIN reqs) >= 3
        /\ \A r2 \in DOMAIN reqs \ {r1} :
            /\ reqs[r2].event_id = "evt-1"
            /\ reqs[r2].dup = "True"
            /\ reqs[r2].outcome = "DuplicateSkipped"

\* Some call is between reading the engine's cache and writing it back
Acquiring(i) ==
    \E c \in DOMAIN calls :
        calls[c].engine = i /\ calls[c].pc \in {"await_token", "set_expiry"}

\* C15: when two callers acquire a token on one engine at the same time, the
\* cached state they leave is consistent in every interleaving: the cached
\* token and the cached expiry come from one and the same token response.
C15_TokenAndExpiryFromOneResponse ==
    \A i \in DOMAIN engines :
        ~Acquiring(i) => net.tokenFrom[i] = net.expiryFrom[i]

\* What a resolver function returns for the row (or absence of a row) `client`
Resolved(fn, client) ==
    IF fn = "get_store_url" THEN store_url_of(client)
    ELSE IF fn = "get_client_credentials" THEN credentials_of(client)
    ELSE webhook_secret_of(client)

\* The resolver function's way of saying the tenant has no record
NotFound(fn, result) ==
    IF fn = "get_client_credentials"
    THEN result.client_id = None /\ result.client_secret = None
    ELSE result.type = "dict"

\* C16: credential resolution reflects the credential store at call time:
\* whatever changes of the store (provisioned, rotated, removed) come between
\* the calls, each call returns the values the store holds at that moment and
\* reports not-found exactly when the store holds no record of the tenant.
C16_ResolveReflectsStore ==
    rcall.fn # "none" =>
        /\ rcall.result = Resolved(rcall.fn, rcall.stored)
        /\ NotFound(rcall.fn, rcall.result) <=> ~rcall.stored.found

\* C17: at most one access token is cached per tenant in the process: no two
\* engines of one tenant hold a cached token at once, and no token request for
\* a tenant is in flight while an engine of that tenant holds a cached token.
C17_OneTokenPerTenant ==
    /\ \A i, j \in DOMAIN engines :
        (i # j /\ engines[i].created /\ engines[j].created
               /\ engines[i]._client_id = engines[j]._client_id) =>
            ~(engines[i]._access_token # None /\ engines[j]._access_token # None)
    /\ \A c \in DOMAIN calls, j \in DOMAIN engines :
        (calls[c].pc = "await_token" /\ engines[j].created
            /\ engines[j]._client_id = engines[calls[c].engine]._client_id) =>
            NeedsToken(engines[j])

\* C18: every webhook request ends in exactly one of DuplicateSkipped,
\* Unauthorized or Accepted; no failure escapes the handler as an unhandled
\* fault, not even for a valid signature on a body that is not JSON.
C18_EveryRequestEndsTyped ==
    \A r \in DOMAIN reqs :
        Done(reqs[r]) =>
            reqs[r].outcome \in {"DuplicateSkipped", "Unauthorized", "Accepted"}

\* C19: the expiry sweep runs on every call of is_duplicate_event: after any
\* call at time now, whether it returned True or False, the dict holds no entry
\* recorded more than 24 hours before now.
C19_SweepOnEveryCall ==
    [][\A r \in DOMAIN reqs :
        DupCheckStep(r) =>
            \A e \in DOMAIN processed_event_ids' :
                ~((now - processed_event_ids'[e]) > WINDOW_HOURS)
      ]_vars

\* C20: the duplicate check comes before the signature check: a request whose
\* event id is already recorded ends in DuplicateSkipped with HTTP 200 without
\* its body being read, its signature verified or its payload decoded, even
\* when its signature header is absent or invalid.
C20_DuplicateBeforeSignature ==
    \A r \in DOMAIN reqs :
        LET q == reqs[r] IN
        (q.pc # "idle" /\ TruthyId(q.event_id) /\ q.recorded) =>
            /\ q.pc = "done"
            /\ q.outcome = "DuplicateSkipped"
            /\ q.status = 200
            /\ q.verify = "notcalled"
            /\ ~q.decoded

\* C20 witness: deliveries of a recorded id were skipped with 200 although
\* the signature header was absent.
C20_Witness ==
    \E r \in DOMAIN reqs :
        LET q == reqs[r] IN
        /\ Done(q) /\ q.recorded /\ TruthyId(q.event_id)
        /\ q.outcome = "DuplicateSkipped" /\ q.status = 200
        /\ q.hmac = NoHeader

\* C21: a webhook body is decoded only after the signature header was present
\* and verification of the raw body returned True, and a decoded payload
\* exists only in the Accepted state; nothing is decoded on the Unauthorized
\* and DuplicateSkipped paths.
C21_DecodeOnlyAfterVerification ==
    \A r \in DOMAIN reqs :
        LET q == reqs[r] IN
        /\ q.loads # "notcalled" =>
            /\ TruthyHeader(q.hmac)
            /\ q.verify = "True"
            /\ CorrectlySigned(q)
        /\ q.decoded => (q.loads = "returned" /\ q.outcome = "Accepted")
        /\ q.outcome \in {"Unauthorized", "DuplicateSkipped"} =>
            (q.loads = "notcalled" /\ ~q.decoded)

\* C21 witness: a correctly signed JSON body was decoded and the request
\* Accepted, on the update endpoint, for an event id seen for the first time.
C21_Witness ==
    \E r \in DOMAIN reqs :
        LET q == reqs[r] IN
        /\ Done(q) /\ q.outcome = "Accepted" /\ q.decoded /\ q.loads = "returned"
        /\ q.verify = "True" /\ q.body = BodyObj
        /\ q.endpoint = "products/update" /\ q.dup = "False"

\* The token acquisition of call c got a non-success answer
AcquisitionFailed(c) ==
    /\ calls[c].posts = 1
    /\ calls[c].pc \in {"catalog", "done"}
    /\ calls[c].pending.access_token = None

\* C22: a failed token acquisition is surfaced to the caller: when the token
\* endpoint answers non-success, list_products / get_product end with an
\* explicit failure and send no catalog request, so no catalog request ever
\* carries an absent token.
C22_FailedAcquisitionSurfaced ==
    /\ \A i \in DOMAIN engines : None \notin net.catalogTokens[i]
    /\ \A c \in DOMAIN calls :
        AcquisitionFailed(c) =>
            /\ calls[c].pc = "done"
            /\ calls[c].result \notin {"json", "None", "none"}

\* C23: an is_duplicate_event call that returns True changes nothing: the dict
\* after the call is the dict before it, so the time recorded for the id is
\* not refreshed and no other entry is added or removed.
C23_DuplicateCallChangesNothing ==
    [][\A r \in DOMAIN reqs :
        (DupCheckStep(r) /\ reqs'[r].dup = "True") =>
            processed_event_ids' = processed_event_ids
      ]_vars

\* C23 witness: a call returned True for an id recorded more than 24 hours
\* before, and the dict still holds both that entry with its first time and a
\* later entry of the other id.
C23_Witness ==
    \E r \in DOMAIN reqs :
        LET q == reqs[r]
            e == q.event_id
        IN  /\ DupCalled(q) /\ q.dup = "True" /\ ~q.wrote
            /\ e \in DOMAIN processed_event_ids
            /\ now - processed_event_ids[e] > WINDOW_HOURS
            /\ processed_event_ids[e] = firstSeen[e]
            /\ DOMAIN processed_event_ids = EventIds

====
